---- MODULE Spec2Model ----
(***************************************************************************)
(* Word-level audio censorship pipeline of model.py: the denylist loaded   *)
(* at import, the timestamp adjuster, the normalizer and matcher, the      *)
(* slice-and-splice censor engine, the codec negotiation loop and main's   *)
(* try/finally clean-up.                                                   *)
(*                                                                         *)
(* Conventions.                                                            *)
(*  - A str is a sequence of one-character strings.                        *)
(*  - A time in seconds is an integer number of ticks, TicksPerMs ticks to *)
(*    the millisecond, so that int(t * 1000) really truncates.  Arithmetic *)
(*    on ticks is exact; the binary rounding of Python floats is not       *)
(*    modelled.                                                            *)
(*  - An AudioSegment is a sequence with one sample per millisecond, the   *)
(*    unit pydub slices and measures in; element k is millisecond k-1.     *)
(*    Silence is the sample 0; the extracted audio has sample p at         *)
(*    element p, so every change or shift of a source sample shows.        *)
(***************************************************************************)
EXTENDS Integers, Sequences, FiniteSets, TLC

\* ------------------------------------------------------------- bounds
\* Sub-millisecond resolution of the recognizer's timestamps.
TicksPerMs == 10
\* Longest audio the general runs extract, in milliseconds.
MaxAudioMs == 800
\* Longest transcript of the censoring runs / of the whole-pipeline runs.
MaxWords == 2
MaxWordsMain == 1

\* ------------------------------------------------- program constants
MsPerSecond == 1000
ShiftMs == 300
\* 0.1 s, as written in the source, in ticks.
TicksPerSecond == MsPerSecond * TicksPerMs
PadTicks == TicksPerSecond \div 10

Min2(a, b) == IF a <= b THEN a ELSE b
Max2(a, b) == IF a >= b THEN a ELSE b

\* ------------------------------------------------------------ strings
SpaceChars == {" ", "\n", "\t"}
LetterChars == {"a", "d", "e", "g", "h", "l", "m", "n", "o", "D", "H"}
WordChars == LetterChars \cup {"_", "1"}

\* str.lower(), one character.
LowerChar(c) == CASE c = "D" -> "d" [] c = "H" -> "h" [] OTHER -> c

\* str.lower()
Lower(s) == [k \in 1..Len(s) |-> LowerChar(s[k])]

RECURSIVE LStrip(_)
LStrip(s) == IF s # <<>> /\ Head(s) \in SpaceChars THEN LStrip(Tail(s)) ELSE s

RECURSIVE RStrip(_)
RStrip(s) ==
    IF s # <<>> /\ s[Len(s)] \in SpaceChars
    THEN RStrip(SubSeq(s, 1, Len(s) - 1))
    ELSE s

\* str.strip()
Strip(s) == RStrip(LStrip(s))

RECURSIVE RemovePunctFrom(_)
RemovePunctFrom(s) ==
    IF s = <<>> THEN <<>>
    ELSE IF Head(s) \in WordChars \cup SpaceChars
         THEN <<Head(s)>> \o RemovePunctFrom(Tail(s))
         ELSE RemovePunctFrom(Tail(s))

\* re.sub(r'[^\w\s]', '', word)
RemovePunct(s) == RemovePunctFrom(s)

\* word_cleaned of a word's text.
WordCleaned(text) == RemovePunct(Lower(Strip(text)))

RECURSIVE FindFrom(_, _, _)
FindFrom(needle, hay, k) ==
    IF k + Len(needle) - 1 > Len(hay) THEN FALSE
    ELSE IF SubSeq(hay, k, k + Len(needle) - 1) = needle THEN TRUE
    ELSE FindFrom(needle, hay, k + 1)

\* The mutant of StrIn: equality instead of containment.
StrInExact(needle, hay) == needle = hay

\* needle in hay, for two str.
StrIn(needle, hay) == FindFrom(needle, hay, 1)

\* any(curse_word in word_cleaned for curse_word in curse_words)
AnyCurse(word_cleaned, curse_words) ==
    \E k \in 1..Len(curse_words) : StrIn(curse_words[k], word_cleaned)

RECURSIVE SplitFrom(_, _, _)
SplitFrom(s, sep, piece) ==
    IF s = <<>> THEN <<piece>>
    ELSE IF Head(s) = sep
         THEN <<piece>> \o SplitFrom(Tail(s), sep, <<>>)
         ELSE SplitFrom(Tail(s), sep, Append(piece, Head(s)))

\* str.split(sep) for a one-character separator.
Split(s, sep) == SplitFrom(s, sep, <<>>)

\* CURSE_WORDS = curses.split('\n')
LoadCurseWords(content) == Split(content, "\n")

\* ------------------------------------------------------------ numbers
\* int(x) of a quotient: truncation toward zero.
Trunc(n, d) == IF n >= 0 THEN n \div d ELSE -((-n) \div d)

\* int(t * 1000) for a time t in ticks.
IntMs(t) == Trunc(t * MsPerSecond, TicksPerSecond)

\* The mutant of AdjustedStart: no floor at zero.
AdjustedStartNoFloor(start) == start - PadTicks

\* adjusted_start = max(0, word.start - 0.1)
AdjustedStart(start) == Max2(0, start - PadTicks)

\* adjusted_end = word.end + 0.1
AdjustedEnd(end) == end + PadTicks

\* The word_segments entry appended for one recognized word.
WordSegment(w) ==
    [text |-> w.word, timestamp |-> <<AdjustedStart(w.start), AdjustedEnd(w.end)>>]

\* word_segments for the recognizer's words, in order.
WordSegments(ws) == [k \in 1..Len(ws) |-> WordSegment(ws[k])]

\* -------------------------------------------------------------- audio
\* AudioSegment.silent(duration=d)
Silent(d) == [k \in 1..d |-> 0]

\* audio[lo:hi] of pydub: both ends are cut to len(audio).
Slice(a, lo, hi) == SubSeq(a, Min2(lo, Len(a)) + 1, Min2(hi, Len(a)))

\* start_ms and end_ms of a matched word, before the clamp.
StartMs(word_data) == IntMs(word_data.timestamp[1]) + ShiftMs
EndMs(word_data) == IntMs(word_data.timestamp[2]) + ShiftMs

\* start_ms after "if start_ms > end_ms: start_ms = end_ms".
ClampedStart(start_ms, end_ms) == IF start_ms > end_ms THEN end_ms ELSE start_ms

\* audio[:start_ms] + AudioSegment.silent(end_ms - start_ms) + audio[end_ms:]
Splice(a, start_ms, end_ms) ==
    Slice(a, 0, start_ms) \o Silent(end_ms - start_ms) \o Slice(a, end_ms, Len(a))

\* Whether the loop body's if is taken for word_data.
Matches(word_data, curse_words) == AnyCurse(WordCleaned(word_data.text), curse_words)

\* One pass of the loop body of blank_audio_word_level over word_data.
BlankWord(a, word_data, curse_words) ==
    IF Matches(word_data, curse_words)
    THEN Splice(a, ClampedStart(StartMs(word_data), EndMs(word_data)), EndMs(word_data))
    ELSE a

RECURSIVE BlankFrom(_, _, _, _)
BlankFrom(a, ws, curse_words, k) ==
    IF k > Len(ws) THEN a
    ELSE BlankFrom(BlankWord(a, ws[k], curse_words), ws, curse_words, k + 1)

\* The buffer blank_audio_word_level returns for a loaded buffer a.
BlankAudio(a, ws, curse_words) == BlankFrom(a, ws, curse_words, 1)

\* ------------------------------------------------------------- inputs
Damn == <<"d", "a", "m", "n">>
Hell == <<"h", "e", "l", "l">>

\* Contents of curses.txt: one word, a trailing newline, two words, a blank
\* line between two words.
CurseFiles ==
    { Damn,
      Damn \o <<"\n">>,
      Damn \o <<"\n">> \o Hell,
      Damn \o <<"\n", "\n">> \o Hell }

\* A time of ms milliseconds and sub ticks.
T(ms, sub) == ms * TicksPerMs + sub

\* A word as the recognizer reports it.
W(text, start, end) == [word |-> text, start |-> start, end |-> end]

\* Recognizer words of the general runs: matched and unmatched texts, a start
\* before 0.1 s, sub-millisecond times, a reversed interval, spans that
\* overlap, spans that end or start past the end of the audio.
Words ==
    { W(<<" ", "D", "a", "m", "n", "!">>, T(50, 0), T(100, 0)),
      W(Damn \o <<"e", "d">>, T(200, 3), T(250, 7)),
      W(<<"g", "o", "d">> \o Damn, T(500, 0), T(100, 0)),
      W(<<"d", "a", "m">>, T(300, 0), T(350, 0)),
      W(<<" ", "h", "e", "l", "l", "o">>, T(250, 0), T(300, 9)),
      W(Damn, T(MaxAudioMs - 350, 0), T(MaxAudioMs - 300, 0)),
      W(<<" ", "H", "e", "l", "l", ".">>, T(MaxAudioMs - 100, 5), T(MaxAudioMs - 80, 0)),
      W(<<"d", "a", " ", "m", "n">>, T(60, 0), T(90, 0)) }

\* The word of the scenario: "damn" reported at 10.00 s to 10.40 s.
ScenarioWord == W(Damn, T(10000, 0), T(10400, 0))

\* Lengths of the extracted audio, in ms, of the general runs and of the
\* scenario.
AudioLens == {MaxAudioMs - 250, MaxAudioMs}
ScenarioLens == {10500, 11000}

\* Sequences over S of length at most n.
SeqsUpTo(S, n) == UNION {[1..k -> S] : k \in 0..n}

\* The transcripts drawn for an audio of len ms, at most n words long.
Transcripts(len, n) ==
    IF len \in ScenarioLens THEN {<<ScenarioWord>>} ELSE SeqsUpTo(Words, n)

\* The extracted, normalized mono audio of len ms.
SourceAudio(len) == [p \in 1..len |-> p]

\* ---------------------------------------------------------------- paths
audio_path == "extracted_audio.wav"
clean_audio_path == "clean_audio.wav"
output_video_path == "cleaned.mp4"
transcript_path == "word_transcript.json"

\* temp_output_path of one attempt.
TempOutputPath(video_codec, audio_codec) == <<"cleaned", audio_codec, video_codec>>

audio_encoders == <<"aac", "libmp3lame", "libopus">>
video_encoders == <<"copy", "libx264">>

\* The mutant of cleanup_files: the loop stops after its first path.
cleanup_first_only(fs, file_paths) == fs \ {file_paths[1]}

\* cleanup_files(*file_paths): every path that exists is removed.
cleanup_files(fs, file_paths) == fs \ {file_paths[k] : k \in 1..Len(file_paths)}

\* ---------------------------------------------------------------- state
VARIABLES
    pc,             \* where the program is
    curses_txt,     \* content of curses.txt
    CURSE_WORDS,    \* the module-level denylist
    files,          \* the paths that exist on disk
    source,         \* content of the extracted audio file
    reported,       \* the words the recognizer returned
    word_segments,  \* what transcribe_audio_with_word_timestamps returned
    i,              \* blank_audio_word_level: index of the next word
    audio,          \* blank_audio_word_level: the local audio
    silenced,       \* the "Silencing ..." lines printed, one per spliced word
    vi, ai,         \* overlay_clean_audio: indices of the two loops
    attempts,       \* the encoder invocations made, in order
    renamed,        \* the temp outputs renamed to output_video_path
    exc,            \* the exception in flight, or "none"
    cleaned         \* whether cleanup_files has run

vars ==
    <<pc, curses_txt, CURSE_WORDS, files, source, reported, word_segments, i,
      audio, silenced, vi, ai, attempts, renamed, exc, cleaned>>

censorVars == <<reported, word_segments, i, audio, silenced>>
overlayVars == <<vi, ai, attempts, renamed>>

Init ==
    /\ pc = "import"
    /\ curses_txt \in CurseFiles
    /\ CURSE_WORDS = <<>>
    /\ files \in SUBSET {audio_path, clean_audio_path}
    /\ source = <<>>
    /\ reported = <<>>
    /\ word_segments = <<>>
    /\ i = 1
    /\ audio = <<>>
    /\ silenced = <<>>
    /\ vi = 1
    /\ ai = 1
    /\ attempts = <<>>
    /\ renamed = <<>>
    /\ exc = "none"
    /\ cleaned = FALSE

\* Lines 9-12: the denylist is read and split when the module is loaded;
\* then main(input_video_path) is entered.
LoadCurses ==
    /\ pc = "import"
    /\ CURSE_WORDS' = LoadCurseWords(curses_txt)
    /\ pc' = "extract"
    /\ UNCHANGED <<curses_txt, files, source, exc, cleaned>>
    /\ UNCHANGED censorVars
    /\ UNCHANGED overlayVars

\* A stage of main's try block raises: control goes to the finally block.
Raise(kind) ==
    /\ exc' = kind
    /\ pc' = "finally"

\* extract_audio(video_path, audio_path) returns.
ExtractOk ==
    /\ pc = "extract"
    /\ \E len \in AudioLens \cup ScenarioLens : source' = SourceAudio(len)
    /\ files' = files \cup {audio_path}
    /\ pc' = "transcribe"
    /\ UNCHANGED <<curses_txt, CURSE_WORDS, exc, cleaned>>
    /\ UNCHANGED censorVars
    /\ UNCHANGED overlayVars

\* extract_audio raises, before or after the audio file was written.
ExtractFail ==
    /\ pc = "extract"
    /\ files' \in {files, files \cup {audio_path}}
    /\ Raise("Error")
    /\ UNCHANGED <<curses_txt, CURSE_WORDS, source, cleaned>>
    /\ UNCHANGED censorVars
    /\ UNCHANGED overlayVars

\* transcribe_audio_with_word_timestamps(audio_path) returns, for a
\* transcript of at most n words.
Transcribe(n) ==
    /\ pc = "transcribe"
    /\ \E ws \in Transcripts(Len(source), n) :
          /\ reported' = ws
          /\ word_segments' = WordSegments(ws)
    /\ pc' = "save"
    /\ UNCHANGED <<curses_txt, CURSE_WORDS, files, source, exc, cleaned>>
    /\ UNCHANGED <<i, audio, silenced>>
    /\ UNCHANGED overlayVars

TranscribeOk == Transcribe(MaxWordsMain)
TranscribeLong == Transcribe(MaxWords)

TranscribeFail ==
    /\ pc = "transcribe"
    /\ Raise("Error")
    /\ UNCHANGED <<curses_txt, CURSE_WORDS, files, source, cleaned>>
    /\ UNCHANGED censorVars
    /\ UNCHANGED overlayVars

\* save_word_level_transcript(word_segments, transcript_path) returns.
SaveOk ==
    /\ pc = "save"
    /\ files' = files \cup {transcript_path}
    /\ pc' = "blank_load"
    /\ UNCHANGED <<curses_txt, CURSE_WORDS, source, exc, cleaned>>
    /\ UNCHANGED censorVars
    /\ UNCHANGED overlayVars

\* save_word_level_transcript raises, before or after the file was opened.
SaveFail ==
    /\ pc = "save"
    /\ files' \in {files, files \cup {transcript_path}}
    /\ Raise("Error")
    /\ UNCHANGED <<curses_txt, CURSE_WORDS, source, cleaned>>
    /\ UNCHANGED censorVars
    /\ UNCHANGED overlayVars

\* blank_audio_word_level, line 58: the audio file is loaded.
BlankLoad ==
    /\ pc = "blank_load"
    /\ audio' = source
    /\ i' = 1
    /\ silenced' = <<>>
    /\ pc' = "blank_loop"
    /\ UNCHANGED <<curses_txt, CURSE_WORDS, files, source, exc, cleaned>>
    /\ UNCHANGED <<reported, word_segments>>
    /\ UNCHANGED overlayVars

\* AudioSegment.from_file raises.
BlankFail ==
    /\ pc = "blank_load"
    /\ Raise("Error")
    /\ UNCHANGED <<curses_txt, CURSE_WORDS, files, source, cleaned>>
    /\ UNCHANGED censorVars
    /\ UNCHANGED overlayVars

\* The line printed at line 71 for word k.
SilencingLine(k, word_data) ==
    [k |-> k,
     start_ms |-> ClampedStart(StartMs(word_data), EndMs(word_data)),
     end_ms |-> EndMs(word_data)]

\* blank_audio_word_level, lines 60-72: one pass of the loop.
BlankStep ==
    /\ pc = "blank_loop"
    /\ i <= Len(word_segments)
    /\ audio' = BlankWord(audio, word_segments[i], CURSE_WORDS)
    /\ silenced' =
          IF Matches(word_segments[i], CURSE_WORDS)
          THEN Append(silenced, SilencingLine(i, word_segments[i]))
          ELSE silenced
    /\ i' = i + 1
    /\ UNCHANGED <<pc, curses_txt, CURSE_WORDS, files, source, exc, cleaned>>
    /\ UNCHANGED <<reported, word_segments>>
    /\ UNCHANGED overlayVars

\* blank_audio_word_level, line 73: the loop is over, audio is returned.
BlankReturn ==
    /\ pc = "blank_loop"
    /\ i > Len(word_segments)
    /\ pc' = "export"
    /\ UNCHANGED <<curses_txt, CURSE_WORDS, files, source, exc, cleaned>>
    /\ UNCHANGED censorVars
    /\ UNCHANGED overlayVars

\* cleaned_audio.export(clean_audio_path, format="wav") returns.
ExportOk ==
    /\ pc = "export"
    /\ files' = files \cup {clean_audio_path}
    /\ vi' = 1
    /\ ai' = 1
    /\ pc' = "overlay"
    /\ UNCHANGED <<curses_txt, CURSE_WORDS, source, exc, cleaned>>
    /\ UNCHANGED censorVars
    /\ UNCHANGED <<attempts, renamed>>

\* The export raises, before or after the file was created.
ExportFail ==
    /\ pc = "export"
    /\ files' \in {files, files \cup {clean_audio_path}}
    /\ Raise("Error")
    /\ UNCHANGED <<curses_txt, CURSE_WORDS, source, cleaned>>
    /\ UNCHANGED censorVars
    /\ UNCHANGED overlayVars

\* The mutant of AttemptPair: the audio codec is the outer loop.
AttemptPairAudioOuter(v, a) ==
    LET n == (v - 1) * Len(audio_encoders) + (a - 1)
    IN  <<video_encoders[(n % Len(video_encoders)) + 1],
          audio_encoders[(n \div Len(video_encoders)) + 1]>>

\* (video_codec, audio_codec) of the pass with loop indices v (outer) and a.
AttemptPair(v, a) == <<video_encoders[v], audio_encoders[a]>>

\* The loop indices of the pass after (v, a): the inner loop advances, and
\* the outer one when the inner is exhausted.
NextIndices(v, a) == IF a < Len(audio_encoders) THEN <<v, a + 1>> ELSE <<v + 1, 1>>

\* The mutant of AttemptOk: the return after the rename is missing.
AttemptOkNoReturn ==
    /\ pc = "overlay"
    /\ vi <= Len(video_encoders)
    /\ attempts' = Append(attempts, AttemptPair(vi, ai))
    /\ renamed' = Append(renamed, TempOutputPath(AttemptPair(vi, ai)[1], AttemptPair(vi, ai)[2]))
    /\ files' = files \cup {output_video_path}
    /\ vi' = NextIndices(vi, ai)[1]
    /\ ai' = NextIndices(vi, ai)[2]
    /\ UNCHANGED <<pc, curses_txt, CURSE_WORDS, source, exc, cleaned>>
    /\ UNCHANGED censorVars

\* overlay_clean_audio, lines 88-106: the encoder exits with status 0, the
\* temp output is renamed and the function returns; line 133 prints.
AttemptOk ==
    /\ pc = "overlay"
    /\ vi <= Len(video_encoders)
    /\ attempts' = Append(attempts, AttemptPair(vi, ai))
    /\ renamed' = Append(renamed, TempOutputPath(AttemptPair(vi, ai)[1], AttemptPair(vi, ai)[2]))
    /\ files' = (files \ {TempOutputPath(AttemptPair(vi, ai)[1], AttemptPair(vi, ai)[2])})
                    \cup {output_video_path}
    /\ pc' = "finally"
    /\ UNCHANGED <<curses_txt, CURSE_WORDS, source, exc, cleaned, vi, ai>>
    /\ UNCHANGED censorVars

\* overlay_clean_audio, lines 88-103 and 107-109: the encoder exits with a
\* non-zero status (CalledProcessError), which is caught; the loops go on.
AttemptFailed ==
    /\ pc = "overlay"
    /\ vi <= Len(video_encoders)
    /\ attempts' = Append(attempts, AttemptPair(vi, ai))
    /\ vi' = NextIndices(vi, ai)[1]
    /\ ai' = NextIndices(vi, ai)[2]
    /\ UNCHANGED <<pc, curses_txt, CURSE_WORDS, files, source, exc, cleaned, renamed>>
    /\ UNCHANGED censorVars

\* overlay_clean_audio, line 110: both loops are over.
OverlayExhausted ==
    /\ pc = "overlay"
    /\ vi > Len(video_encoders)
    /\ Raise("RuntimeError")
    /\ UNCHANGED <<curses_txt, CURSE_WORDS, files, source, cleaned>>
    /\ UNCHANGED censorVars
    /\ UNCHANGED overlayVars

\* How main ends after its finally block: an exception in flight goes on to
\* the caller.
AfterFinally(e) == IF e = "none" THEN "returned" ELSE "raised"

\* main, lines 134-135: the finally block.
Finally ==
    /\ pc = "finally"
    /\ files' = cleanup_files(files, <<audio_path, clean_audio_path>>)
    /\ cleaned' = TRUE
    /\ pc' = AfterFinally(exc)
    /\ UNCHANGED <<curses_txt, CURSE_WORDS, source, exc>>
    /\ UNCHANGED censorVars
    /\ UNCHANGED overlayVars

\* The whole program.
Next ==
    \/ LoadCurses
    \/ ExtractOk \/ ExtractFail
    \/ TranscribeOk \/ TranscribeFail
    \/ SaveOk \/ SaveFail
    \/ BlankLoad \/ BlankFail
    \/ BlankStep \/ BlankReturn
    \/ ExportOk \/ ExportFail
    \/ AttemptOk \/ AttemptFailed \/ OverlayExhausted
    \/ Finally

Spec == Init /\ [][Next]_vars

\* The program up to the return of blank_audio_word_level, no stage failing,
\* over the longer transcripts.
CensorNext ==
    \/ LoadCurses
    \/ ExtractOk
    \/ TranscribeLong
    \/ SaveOk
    \/ BlankLoad
    \/ BlankStep
    \/ BlankReturn

CensorSpec == Init /\ [][CensorNext]_vars

\* ======================================================== properties
\* blank_audio_word_level has returned.
Returned == pc = "export"

\* Millisecond ms lies in one of the spans the function printed.
InSpans(ms) ==
    \E j \in 1..Len(silenced) : silenced[j].start_ms <= ms /\ ms < silenced[j].end_ms

\* Word k of the transcript was spliced.
WasSilenced(k) == \E j \in 1..Len(silenced) : silenced[j].k = k

\* C1: the returned buffer is silent at every millisecond inside the union
\* of the computed spans, and at every position outside the union it has the
\* source buffer's sample of that position.
C1_SilenceCorrectness ==
    Returned =>
        /\ \A p \in 1..Len(audio) :
              IF InSpans(p - 1)
              THEN audio[p] = 0
              ELSE p <= Len(source) /\ audio[p] = source[p]
        /\ \A p \in 1..Len(source) :
              /\ p <= Len(audio)
              /\ audio[p] = IF InSpans(p - 1) THEN 0 ELSE source[p]

\* C7: a span that ends or starts past the end of the buffer is cut to the
\* buffer: the buffer keeps the source's length, during and after the loop.
C7_LengthKept ==
    pc \in {"blank_loop", "export"} => Len(audio) = Len(source)

\* C8: applying the same words to the censored buffer once more changes
\* nothing, in content or in length.
C8_Idempotent ==
    Returned => BlankAudio(audio, word_segments, CURSE_WORDS) = audio

\* The spans printed are pairwise non-overlapping.
DisjointSpans ==
    \A j1, j2 \in 1..Len(silenced) :
        j1 # j2 =>
            \/ silenced[j1].end_ms <= silenced[j2].start_ms
            \/ silenced[j2].end_ms <= silenced[j1].start_ms

\* The orders in which n words can be applied.
Orders(n) == {f \in [1..n -> 1..n] : \A a, b \in 1..n : f[a] = f[b] => a = b}

\* C9: when the spans are pairwise non-overlapping, every order of the words
\* gives the buffer the function returned.
C9_OrderIndependent ==
    (Returned /\ DisjointSpans) =>
        \A f \in Orders(Len(word_segments)) :
            BlankAudio(source,
                       [k \in 1..Len(word_segments) |-> word_segments[f[k]]],
                       CURSE_WORDS) = audio

\* The lines of curses.txt that hold a word.
ListedWords == {Damn, Hell}

\* needle occurs in hay at some offset.
OccursIn(needle, hay) ==
    \E off \in 0..(Len(hay) - Len(needle)) :
        \A j \in 1..Len(needle) : hay[off + j] = needle[j]

\* C10: every entry of the denylist is a non-empty string, so a word whose
\* text holds none of the listed words is never silenced.
C10_NoEmptyEntry ==
    /\ \A k \in 1..Len(CURSE_WORDS) : CURSE_WORDS[k] # <<>>
    /\ \A k \in 1..Len(reported) :
          WasSilenced(k) => \E c \in ListedWords : OccursIn(c, Lower(reported[k].word))

\* The normalized token of a text, as the claim words it: trimmed, then
\* lower-cased, then without the characters that are neither word characters
\* nor whitespace.
NonSpaceAt(text) == {k \in 1..Len(text) : text[k] \notin SpaceChars}
FirstOf(S) == CHOOSE k \in S : \A m \in S : k <= m
LastOf(S) == CHOOSE k \in S : \A m \in S : k >= m
Trimmed(text) ==
    IF NonSpaceAt(text) = {} THEN <<>>
    ELSE SubSeq(text, FirstOf(NonSpaceAt(text)), LastOf(NonSpaceAt(text)))
Lowered(c) == IF c = "D" THEN "d" ELSE IF c = "H" THEN "h" ELSE c
Kept(c) == c \in WordChars \/ c \in SpaceChars
NormalizedToken(text) ==
    SelectSeq([k \in 1..Len(Trimmed(text)) |-> Lowered(Trimmed(text)[k])], Kept)

\* The words the loop has gone through.
Processed == IF pc \in {"blank_loop", "export"} THEN 1..(i - 1) ELSE {}

\* C5: a word is silenced iff some denylist entry is a substring of its
\* normalized token; with the denylist {"damn"}, "damn", "damned" and
\* "goddamn" are silenced and "dam" is not.
C5_MatcherContainment ==
    \A k \in Processed :
        /\ WasSilenced(k) <=>
              \E e \in 1..Len(CURSE_WORDS) :
                  OccursIn(CURSE_WORDS[e], NormalizedToken(reported[k].word))
        /\ CURSE_WORDS = <<Damn>> =>
              /\ NormalizedToken(reported[k].word)
                     \in {Damn, Damn \o <<"e", "d">>, <<"g", "o", "d">> \o Damn}
                   => WasSilenced(k)
              /\ NormalizedToken(reported[k].word) = <<"d", "a", "m">>
                   => ~WasSilenced(k)

\* With the denylist {"damn"}, a transcript of "goddamn" then "dam" has been
\* censored: the first word is silenced, the second is not.
C5_Witness ==
    /\ Returned
    /\ CURSE_WORDS = <<Damn>>
    /\ Len(reported) = 2
    /\ reported[1].word = <<"g", "o", "d">> \o Damn
    /\ reported[2].word = <<"d", "a", "m">>
    /\ WasSilenced(1)
    /\ ~WasSilenced(2)

\* The span of the claim's formula for a word reported at [start, end]:
\* trunc(max(0, start - 0.1) * 1000) + 300 and trunc((end + 0.1) * 1000) + 300.
FormulaStartMs(w) ==
    ((IF w.start > 100 * TicksPerMs THEN w.start - 100 * TicksPerMs ELSE 0) \div TicksPerMs) + 300
FormulaEndMs(w) == ((w.end + 100 * TicksPerMs) \div TicksPerMs) + 300

\* The scenario: "damn" at 10.00-10.40 s, denylist {"damn"}, gives the span
\* [10200, 10800) and changes nothing else.
ScenarioHolds ==
    (Returned /\ reported = <<ScenarioWord>> /\ CURSE_WORDS = <<Damn>>) =>
        /\ silenced = <<[k |-> 1, start_ms |-> 10200, end_ms |-> 10800]>>
        /\ \A p \in 1..Len(audio) :
              IF 10200 <= p - 1 /\ p - 1 < 10800
              THEN audio[p] = 0
              ELSE p <= Len(source) /\ audio[p] = source[p]
        /\ \A p \in 1..Len(source) :
              ~(10200 <= p - 1 /\ p - 1 < 10800) => (p <= Len(audio) /\ audio[p] = source[p])

Ended == pc \in {"returned", "raised"}

\* C2: when main has ended, cleanup_files has run, neither working audio
\* file exists, and main ended by raising iff a stage raised.
C2_CleanupAlways ==
    /\ Ended =>
          /\ cleaned
          /\ audio_path \notin files
          /\ clean_audio_path \notin files
          /\ pc = "raised" <=> exc # "none"
    /\ exc # "none" => pc \in {"finally", "raised"}

\* The export raised after the censoring, leaving both working files behind
\* for the finally block, and main has ended by raising.
C2_Witness ==
    /\ pc = "raised"
    /\ exc = "Error"
    /\ cleaned
    /\ Len(silenced) > 0
    /\ attempts = <<>>

\* The six pairs, in the documented order.
SixPairs ==
    << <<"copy", "aac">>, <<"copy", "libmp3lame">>, <<"copy", "libopus">>,
       <<"libx264", "aac">>, <<"libx264", "libmp3lame">>, <<"libx264", "libopus">> >>

\* C3: while the pairs fail, the attempts made are the first pairs of the
\* documented order, each once, and nothing is raised; the error is raised
\* only after all six have failed, and then nothing was renamed to the
\* output path.
C3_Exhaustion ==
    /\ pc = "overlay" =>
          /\ exc = "none"
          /\ Len(attempts) <= Len(SixPairs)
          /\ attempts = SubSeq(SixPairs, 1, Len(attempts))
          /\ renamed = <<>>
    /\ exc = "RuntimeError" =>
          /\ attempts = SixPairs
          /\ renamed = <<>>
          /\ output_video_path \notin files
    /\ (pc \in {"finally", "returned", "raised"} /\ attempts # <<>> /\ renamed = <<>>) =>
          /\ exc = "RuntimeError"
          /\ attempts = SixPairs

\* Every pair failed and main has ended with the unrecoverable error.
C3_Witness ==
    /\ pc = "raised"
    /\ exc = "RuntimeError"
    /\ Len(attempts) = 6

\* C4: when a pair has succeeded, the attempts made are exactly the pairs of
\* the documented order up to that pair, its temp output is the one renamed
\* to the output path, and the function has returned without raising.
C4_ShortCircuit ==
    renamed # <<>> =>
        /\ Len(attempts) \in 1..Len(SixPairs)
        /\ attempts = SubSeq(SixPairs, 1, Len(attempts))
        /\ renamed = <<TempOutputPath(attempts[Len(attempts)][1], attempts[Len(attempts)][2])>>
        /\ output_video_path \in files
        /\ exc = "none"
        /\ pc \in {"finally", "returned"}

\* The third pair was the first to succeed and main has returned.
C4_Witness ==
    /\ pc = "returned"
    /\ attempts = << <<"copy", "aac">>, <<"copy", "libmp3lame">>, <<"copy", "libopus">> >>
    /\ renamed = <<TempOutputPath("copy", "libopus")>>

====
